---------------------------- MODULE Spec2Model ----------------------------
(***************************************************************************)
(* Model of the two HTTP/REST drivers of the Model Context Standard:       *)
(*   RestHttpDriver  (src/mcs/drivers/rest_http/rest_http_driver.py)       *)
(*   HTTPRESTDriver  (src/drivers/http_rest/http_rest_driver.py)           *)
(*                                                                         *)
(* A text is a sequence of lexemes.  A lexeme is one of the delimiter      *)
(* characters the code looks at ("/", ":", ".", a newline, a blank, a      *)
(* brace, a code fence) or a run of other characters (a word).  The string *)
(* functions the drivers call (strip, lstrip, rstrip, split, urlparse,     *)
(* urljoin, the regular expressions, json.loads) are defined on these      *)
(* sequences as the library computes them on the characters.               *)
(***************************************************************************)
EXTENDS Naturals, Sequences, FiniteSets

VARIABLES
    driver,          \* which of the two classes the instance is
    urls0,           \* self.function_desc_urls[0]
    reduced_spec,    \* self.reduced_spec
    default_headers, \* self.default_headers
    custom_desc,     \* self._custom_tool_description (RestHttpDriver only)
    custom_msg,      \* self._custom_system_message   (RestHttpDriver only)
    has_base_url,    \* hasattr(self, "_base_url")
    base_url,        \* self._base_url, meaningful when has_base_url
    upstream,        \* the specification text the spec URL serves at present
    op,              \* the public operation that ran last
    input,           \* the model output handed to the last Process Response
    result,          \* how the last operation ended
    reqs             \* the HTTP requests the last operation made, in order

vars == <<driver, urls0, reduced_spec, default_headers, custom_desc, custom_msg,
          has_base_url, base_url, upstream, op, input, result, reqs>>

config == <<driver, urls0, reduced_spec, default_headers, custom_desc, custom_msg>>

(***************************************************************************)
(* Strings                                                                 *)
(***************************************************************************)
SLASH == "/"
COLON == ":"
DOT == "."

\* str.lstrip(ch)
RECURSIVE lstrip(_, _)
lstrip(s, ch) ==
    IF s # <<>> /\ Head(s) = ch THEN lstrip(Tail(s), ch) ELSE s

\* str.rstrip(ch)
RECURSIVE rstrip(_, _)
rstrip(s, ch) ==
    IF s # <<>> /\ s[Len(s)] = ch THEN rstrip(SubSeq(s, 1, Len(s) - 1), ch) ELSE s

\* index of the first occurrence of ch in s at or after position i, 0 if none
RECURSIVE find(_, _, _)
find(s, ch, i) ==
    IF i > Len(s) THEN 0 ELSE IF s[i] = ch THEN i ELSE find(s, ch, i + 1)

\* str.split(ch): the sequence of the pieces between the occurrences of ch
RECURSIVE split(_, _)
split(s, ch) ==
    LET i == find(s, ch, 1)
    IN  IF i = 0 THEN <<s>>
        ELSE <<SubSeq(s, 1, i - 1)>> \o split(SubSeq(s, i + 1, Len(s)), ch)

\* ch.join(parts)
RECURSIVE join(_, _)
join(parts, ch) ==
    IF parts = <<>> THEN <<>>
    ELSE IF Len(parts) = 1 THEN parts[1]
    ELSE parts[1] \o <<ch>> \o join(Tail(parts), ch)

(***************************************************************************)
(* urllib.parse, as the drivers use it.  The texts of the model hold no    *)
(* question mark, hash or semicolon, so params, query and fragment are     *)
(* always empty.                                                           *)
(***************************************************************************)
NL == "\n"
SP == " "
LB == "{"
RB == "}"
FENCE == "FENCE"   \* the three backquotes of a markdown code fence
COMMA == ","
Delimiters == {SLASH, COLON, DOT, NL, SP, LB, RB, FENCE, COMMA}
Digits == {"8000", "404", "5"}

\* a word that may open a scheme: it starts with a letter
IsWord(x) == x \notin Delimiters /\ x \notin Digits

\* the characters a scheme may hold besides its first: letters, digits, "."
RECURSIVE AllSchemeChars(_)
AllSchemeChars(s) ==
    s = <<>> \/ (Head(s) \notin (Delimiters \ {DOT}) /\ AllSchemeChars(Tail(s)))

uses_relative == {<<>>, <<"http">>, <<"https">>, <<"ftp">>, <<"file">>}
uses_netloc == {<<>>, <<"http">>, <<"https">>, <<"ftp">>, <<"file">>}

\* urlsplit: the text after the scheme, cut at position j into netloc and path
SplitNetloc(scheme, after, j) ==
    [scheme |-> scheme,
     netloc |-> IF j = 0 THEN after ELSE SubSeq(after, 1, j - 1),
     path   |-> IF j = 0 THEN <<>> ELSE SubSeq(after, j, Len(after))]

\* urlsplit: a text that starts with "//" has a netloc, up to the next "/"
ParseNetloc(scheme, rest) ==
    IF Len(rest) >= 2 /\ rest[1] = SLASH /\ rest[2] = SLASH
    THEN SplitNetloc(scheme, SubSeq(rest, 3, Len(rest)),
                     find(SubSeq(rest, 3, Len(rest)), SLASH, 1))
    ELSE [scheme |-> scheme, netloc |-> <<>>, path |-> rest]

\* urlsplit: the text before the first ":" at position i is a scheme if it
\* starts with a letter and holds scheme characters only
HasScheme(url, i) == i > 1 /\ IsWord(url[1]) /\ AllSchemeChars(SubSeq(url, 1, i - 1))

ParseScheme(url, default, i) ==
    ParseNetloc(IF HasScheme(url, i) THEN SubSeq(url, 1, i - 1) ELSE default,
                IF HasScheme(url, i) THEN SubSeq(url, i + 1, Len(url)) ELSE url)

\* urlparse(url, scheme=default): [scheme, netloc, path]
urlparse(url, default) == ParseScheme(url, default, find(url, COLON, 1))

\* urlunparse((scheme, netloc, path, "", "", ""))
urlunparse(scheme, netloc, path) ==
    (IF scheme # <<>> THEN scheme \o <<COLON>> ELSE <<>>)
    \o (IF netloc # <<>>
           \/ (scheme # <<>> /\ scheme \in uses_netloc
               /\ SubSeq(path, 1, 2) # <<SLASH, SLASH>>)
        THEN <<SLASH, SLASH>> \o netloc
             \o (IF path # <<>> /\ Head(path) # SLASH THEN <<SLASH>> ELSE <<>>)
        ELSE <<>>)
    \o path

\* segments[1:-1] = filter(None, segments[1:-1])
FilterInner(segs) ==
    IF Len(segs) <= 2 THEN segs
    ELSE <<segs[1]>>
         \o SelectSeq(SubSeq(segs, 2, Len(segs) - 1), LAMBDA g : g # <<>>)
         \o <<segs[Len(segs)]>>

\* the loop of urljoin that resolves "." and ".." segments
RECURSIVE ResolveDots(_, _)
ResolveDots(segs, acc) ==
    IF segs = <<>> THEN acc
    ELSE IF Head(segs) = <<DOT, DOT>>
         THEN ResolveDots(Tail(segs),
                          IF acc = <<>> THEN acc ELSE SubSeq(acc, 1, Len(acc) - 1))
    ELSE IF Head(segs) = <<DOT>> THEN ResolveDots(Tail(segs), acc)
    ELSE ResolveDots(Tail(segs), Append(acc, Head(segs)))

\* urljoin: base_parts, the base path without its last segment unless that is empty
BaseParts(bp) == IF bp[Len(bp)] # <<>> THEN SubSeq(bp, 1, Len(bp) - 1) ELSE bp

\* urljoin: the resolved path of the segments, "/" if it is empty
ResolvedPath(segments) ==
    join(ResolveDots(segments, <<>>)
         \o (IF segments[Len(segments)] \in {<<DOT>>, <<DOT, DOT>>} THEN <<<<>>>> ELSE <<>>),
         SLASH)

OrRoot(path) == IF path = <<>> THEN <<SLASH>> ELSE path

\* urljoin: the path of the result, for a url without a netloc of its own
JoinedPath(bpath, path) ==
    IF path = <<>> THEN bpath
    ELSE OrRoot(ResolvedPath(IF Head(path) = SLASH THEN split(path, SLASH)
                             ELSE FilterInner(BaseParts(split(bpath, SLASH))
                                              \o split(path, SLASH))))

\* urljoin with both arguments parsed (b the base, u the url, parsed with the
\* scheme of the base as its default)
JoinParsed(b, u, url) ==
    IF u.scheme # b.scheme \/ u.scheme \notin uses_relative THEN url
    ELSE urlunparse(u.scheme,
                    IF u.scheme \in uses_netloc /\ u.netloc = <<>> THEN b.netloc ELSE u.netloc,
                    IF u.scheme \in uses_netloc /\ u.netloc # <<>> THEN u.path
                    ELSE JoinedPath(b.path, u.path))

JoinWithBase(b, url) == JoinParsed(b, urlparse(url, b.scheme), url)

\* urllib.parse.urljoin(base, url)
urljoin(base, url) ==
    IF base = <<>> THEN url
    ELSE IF url = <<>> THEN base
    ELSE JoinWithBase(urlparse(base, <<>>), url)

(***************************************************************************)
(* JSON values.  A value is [t, s]: t its type ("absent" for a key the     *)
(* object lacks) and s its content: the lexemes of a string, the digits of *)
(* a number, the flattened key, value, key, value ... of an object, the    *)
(* items of a list.                                                        *)
(***************************************************************************)
Absent == [t |-> "absent", s |-> <<>>]
Null == [t |-> "null", s |-> <<>>]
JStr(s) == [t |-> "str", s |-> s]
JNum(d) == [t |-> "num", s |-> <<d>>]
JObj(kv) == [t |-> "obj", s |-> kv]
JList(xs) == [t |-> "list", s |-> xs]

\* Python truthiness of a decoded JSON value (dict.get gives None when absent)
Truthy(v) ==
    CASE v.t \in {"absent", "null"} -> FALSE
      [] v.t = "num" -> v.s # <<"0">>
      [] OTHER -> v.s # <<>>

\* str.upper() on the method names of the model
upper(w) ==
    CASE w \in {"get", "Get", "GET"} -> "GET"
      [] w \in {"post", "POST"} -> "POST"
      [] w \in {"delete", "DELETE"} -> "DELETE"
      [] OTHER -> w

\* the decoded object of a structured call: its four keys
NoCall == [path |-> Absent, method |-> Absent, arguments |-> Absent, headers |-> Absent]

(***************************************************************************)
(* Model output.  A token is [c, call]: c the lexeme; the lexeme "members" *)
(* stands for the key/value list between the braces of one JSON object and *)
(* carries what it decodes to; "5" is a JSON number.                       *)
(***************************************************************************)
Tok(c) == [c |-> c, call |-> NoCall]
Members(call) == [c |-> "members", call |-> call]
IsSpace(t) == t.c \in {NL, SP}

\* str.strip()
RECURSIVE lstripWs(_)
lstripWs(s) == IF s # <<>> /\ IsSpace(Head(s)) THEN lstripWs(Tail(s)) ELSE s
RECURSIVE rstripWs(_)
rstripWs(s) ==
    IF s # <<>> /\ IsSpace(s[Len(s)]) THEN rstripWs(SubSeq(s, 1, Len(s) - 1)) ELSE s
strip(s) == rstripWs(lstripWs(s))

\* index of the first token with lexeme c at or after i, 0 if none
RECURSIVE findTok(_, _, _)
findTok(s, c, i) ==
    IF i > Len(s) THEN 0 ELSE IF s[i].c = c THEN i ELSE findTok(s, c, i + 1)

\* index of the last token with lexeme c, 0 if none
RECURSIVE rfindTok(_, _, _)
rfindTok(s, c, i) ==
    IF i < 1 THEN 0 ELSE IF s[i].c = c THEN i ELSE rfindTok(s, c, i - 1)

\* re.sub(r"^```[^\n]*\n", "", s) with i the position of the first newline:
\* the opening fence line
CutOpeningFence(s, i) ==
    IF s # <<>> /\ s[1].c = FENCE /\ i > 0 THEN SubSeq(s, i + 1, Len(s)) ELSE s
SubOpeningFence(s) == CutOpeningFence(s, findTok(s, NL, 1))

\* re.sub(r"\n```$", "", s): the closing fence; $ also matches before a final newline
CutClosingFence(s, n) ==
    IF n >= 2 /\ s[n - 1].c = NL /\ s[n].c = FENCE THEN SubSeq(s, 1, n - 2)
    ELSE IF n >= 3 /\ s[n - 2].c = NL /\ s[n - 1].c = FENCE /\ s[n].c = NL
         THEN SubSeq(s, 1, n - 3) \o <<s[n]>>
    ELSE s
SubClosingFence(s) == CutClosingFence(s, Len(s))

\* match.group(0) if match else None, as [found, block]
NoBlock == [found |-> FALSE, block |-> <<>>]
Between(s, i, j) ==
    IF i > 0 /\ j > i THEN [found |-> TRUE, block |-> SubSeq(s, i, j)] ELSE NoBlock

\* re.search(r"\{.*\}", s, re.S): from the first "{" to the last "}"
SearchBraces(s) == Between(s, findTok(s, LB, 1), rfindTok(s, RB, Len(s)))

\* json.loads of a text without its blanks and newlines: [ok, dict, call].
\* The texts that decode are one object ("{" members "}" or "{" "}") and one number.
Decode(b) ==
    IF Len(b) = 2 /\ b[1].c = LB /\ b[2].c = RB
    THEN [ok |-> TRUE, dict |-> TRUE, call |-> NoCall]
    ELSE IF Len(b) = 3 /\ b[1].c = LB /\ b[2].c = "members" /\ b[3].c = RB
    THEN [ok |-> TRUE, dict |-> TRUE, call |-> b[2].call]
    ELSE IF Len(b) = 1 /\ b[1].c = "5"
    THEN [ok |-> TRUE, dict |-> FALSE, call |-> NoCall]
    ELSE [ok |-> FALSE, dict |-> FALSE, call |-> NoCall]

\* json.loads of a model output or of a block of it; blanks and newlines
\* between JSON tokens do not matter
json_loads(block) == Decode(SelectSeq(block, LAMBDA t : ~IsSpace(t)))

\* raw.strip().startswith of the fence
StartsWithFence(s) == s # <<>> /\ s[1].c = FENCE

\* the two re.sub calls on the stripped text
StripFences(s) == SubClosingFence(SubOpeningFence(s))

\* RestHttpDriver._extract_json, with s the stripped text
RestExtract(raw, s) == SearchBraces(IF StartsWithFence(s) THEN StripFences(s) ELSE raw)
RestExtractJson(raw) == RestExtract(raw, strip(raw))

\* HTTPRESTDriver._extract_json, with s the stripped text
HttpExtract(raw, s) ==
    IF StartsWithFence(s) THEN SearchBraces(StripFences(s))
    ELSE [found |-> TRUE, block |-> raw]
HttpExtractJson(raw) == HttpExtract(raw, strip(raw))

(***************************************************************************)
(* Specification documents.  A specification text is [json, fmt, servers,  *)
(* components, info, paths]: json says what the text decodes to ("invalid" *)
(* when it is no JSON), fmt whether the bytes are the upstream ones or     *)
(* json.dumps output; the other fields are the top-level keys of a decoded *)
(* object.  A JSON null stands for every value of an unexpected type.      *)
(***************************************************************************)
Server(u) == [hasurl |-> TRUE, url |-> u]
ServerNoUrl == [hasurl |-> FALSE, url |-> <<>>]
NoServers == [t |-> "absent", items |-> <<>>]
Servers(items) == [t |-> "list", items |-> items]
NullServers == [t |-> "null", items |-> <<>>]

NoResponses == [t |-> "absent", codes |-> <<>>]
NullResponses == [t |-> "null", codes |-> <<>>]
Responses(codes) == [t |-> "dict", codes |-> codes]
Operation(resp) == [t |-> "dict", resp |-> resp]
NonDictOp == [t |-> "other", resp |-> NoResponses]
PathItem(ops) == [t |-> "dict", ops |-> ops]
NullPathItem == [t |-> "null", ops |-> <<>>]
NoPaths == [t |-> "absent", items |-> <<>>]
NullPaths == [t |-> "null", items |-> <<>>]
Paths(items) == [t |-> "dict", items |-> items]

SpecObject(servers, components, paths) ==
    [json |-> "object", fmt |-> "raw", servers |-> servers,
     components |-> components, info |-> TRUE, paths |-> paths]
NotAnObject(json) ==
    [json |-> json, fmt |-> "raw", servers |-> NoServers,
     components |-> FALSE, info |-> FALSE, paths |-> NoPaths]

\* str(code).startswith(("2", "3"))
KeepCode(code) == code # <<>> /\ code[1] \in {"2", "3"}

\* the first error of a sequence of outcomes, "none" if there is none
RECURSIVE FirstErr(_)
FirstErr(errs) ==
    IF errs = <<>> THEN "none"
    ELSE IF Head(errs) # "none" THEN Head(errs) ELSE FirstErr(Tail(errs))

\* the inner loops of _reduce_spec on one operation and one path item
ReduceOp(o) ==
    IF o.t = "dict" /\ o.resp.t = "dict"
    THEN [o EXCEPT !.resp.codes = SelectSeq(@, KeepCode)] ELSE o
ReduceOpErr(o) ==
    IF o.t = "dict" /\ o.resp.t = "null" THEN "TypeError" ELSE "none"
ReducePathItem(it) == [it EXCEPT !.ops = [i \in 1..Len(@) |-> ReduceOp(@[i])]]
ReducePathItemErr(it) ==
    IF it.t = "null" THEN "AttributeError"
    ELSE FirstErr([i \in 1..Len(it.ops) |-> ReduceOpErr(it.ops[i])])

\* the first error of the loop over spec.get("paths", {}).values()
ReducePathsErr(paths) ==
    IF paths.t = "null" THEN "AttributeError"
    ELSE FirstErr([i \in 1..Len(paths.items) |-> ReducePathItemErr(paths.items[i])])

\* json.dumps of the object without components and with its responses pruned
ReducedObject(spec) ==
    [spec EXCEPT !.components = FALSE,
                 !.fmt = "dumps",
                 !.paths.items = [i \in 1..Len(@) |-> ReducePathItem(@[i])]]

\* _reduce_spec on a decoded object, err the first error of its loop
ReduceObject(spec, err) ==
    IF err # "none" THEN [kind |-> "raise", exc |-> err, spec |-> spec]
    ELSE [kind |-> "return", exc |-> "none", spec |-> ReducedObject(spec)]

\* _reduce_spec (the two classes agree): [kind, exc, spec]
_reduce_spec(spec_text) ==
    IF spec_text.json = "invalid"
    THEN [kind |-> "return", exc |-> "none", spec |-> spec_text]   \* not JSON
    ELSE IF spec_text.json = "array"      \* list.pop("components", None)
         THEN [kind |-> "raise", exc |-> "TypeError", spec |-> spec_text]
    ELSE IF spec_text.json # "object"     \* a number has no pop
         THEN [kind |-> "raise", exc |-> "AttributeError", spec |-> spec_text]
    ELSE ReduceObject(spec_text, ReducePathsErr(spec_text.paths))

(***************************************************************************)
(* Texts that cross the driver's interface: a model output, a response     *)
(* body, a specification text, a system prompt built around a description. *)
(***************************************************************************)
NoSpec == NotAnObject("none")
NoText == [k |-> "none", toks |-> <<>>, spec |-> NoSpec]
LlmText(toks) == [k |-> "llm", toks |-> toks, spec |-> NoSpec]
BodyText(toks) == [k |-> "body", toks |-> toks, spec |-> NoSpec]
SpecText(spec) == [k |-> "spec", toks |-> <<>>, spec |-> spec]
CustomMessage == [k |-> "custom_message", toks |-> <<Tok("Be"), Tok(SP), Tok("brief")>>,
                  spec |-> NoSpec]
None == NoText

Return(text) == [kind |-> "return", exc |-> "none", text |-> text]
Raise(exc) == [kind |-> "raise", exc |-> exc, text |-> NoText]
NoResult == [kind |-> "none", exc |-> "none", text |-> NoText]

\* get_driver_system_message of RestHttpDriver: the f-string around the description
RestPromptTemplate(description) == [description EXCEPT !.k = "rest_prompt:" \o @]
\* get_driver_system_message of HTTPRESTDriver
HttpPromptTemplate(description) == [description EXCEPT !.k = "http_prompt:" \o @]

(***************************************************************************)
(* Header mappings: key, value, key, value ... in insertion order.         *)
(***************************************************************************)
RECURSIVE DictSet(_, _, _)
DictSet(d, k, v) ==
    IF d = <<>> THEN <<k, v>>
    ELSE IF d[1] = k THEN <<k, v>> \o SubSeq(d, 3, Len(d))
    ELSE <<d[1], d[2]>> \o DictSet(SubSeq(d, 3, Len(d)), k, v)

\* {**d, **h}
RECURSIVE DictMerge(_, _)
DictMerge(d, h) ==
    IF h = <<>> THEN d ELSE DictMerge(DictSet(d, h[1], h[2]), SubSeq(h, 3, Len(h)))

(***************************************************************************)
(* _do_request.  resp is what the network answers: [outcome, text] with    *)
(* outcome "ok" (raise_for_status passes), "status" (a 4xx or 5xx status:  *)
(* raise_for_status raises HTTPError) or "transport" (requests.request     *)
(* raises ConnectionError, Timeout, SSLError ...).  The result is          *)
(* [reqs, res]: the requests sent and how the call ended.                  *)
(***************************************************************************)
Timeout == 15

_do_request(method, url, params, json_body, headers, resp) ==
    IF Truthy(headers) /\ headers.t # "obj"
    THEN [reqs |-> <<>>, res |-> Raise("TypeError")]   \* {**..., **headers}
    ELSE
    LET merged == DictMerge(default_headers, IF Truthy(headers) THEN headers.s ELSE <<>>)
        req == [method |-> upper(method), url |-> url, params |-> params,
                json |-> json_body, headers |-> merged, timeout |-> Timeout,
                outcome |-> resp.outcome]
    IN  [reqs |-> <<req>>,
         res |-> CASE resp.outcome = "ok" -> Return(resp.text)
                   [] resp.outcome = "status" -> Raise("HTTPError")
                   [] OTHER -> Raise("ConnectionError")]

\* the text _reduce_spec returns, or the exception it raises
AsResult(r) == IF r.kind = "raise" THEN Raise(r.exc) ELSE Return(SpecText(r.spec))
ReduceText(text) == AsResult(_reduce_spec(text.spec))

\* a driver that reduces a specification only the first time it describes it
MaybeReduce_FirstDescribeOnly(r) ==
    IF r.res.kind = "return" /\ reduced_spec /\ op # "Describe"
    THEN [reqs |-> r.reqs, res |-> ReduceText(r.res.text)] ELSE r

\* "self._reduce_spec(spec_text) if self.reduced_spec else spec_text" on the
\* outcome r of the fetch
MaybeReduce(r) ==
    IF r.res.kind = "return" /\ reduced_spec
    THEN [reqs |-> r.reqs, res |-> ReduceText(r.res.text)] ELSE r

FetchSpec(resp) == MaybeReduce(_do_request("GET", urls0, Absent, Absent, Absent, resp))

\* RestHttpDriver.get_function_description
RestGetFunctionDescription(resp) ==
    IF custom_desc # None THEN [reqs |-> <<>>, res |-> Return(custom_desc)]
    ELSE FetchSpec(resp)

\* HTTPRESTDriver.get_function_description
HttpGetFunctionDescription(resp) == FetchSpec(resp)

get_function_description(resp) ==
    IF driver = "RestHttpDriver" THEN RestGetFunctionDescription(resp)
    ELSE HttpGetFunctionDescription(resp)

\* a prompt that fetches the description a second time
PromptAround_FetchTwice(d) ==
    IF d.res.kind = "raise" THEN d
    ELSE [reqs |-> d.reqs \o d.reqs, res |-> Return(RestPromptTemplate(d.res.text))]

\* the f-string around the description d, or the exception of its fetch
PromptAround(d) ==
    IF d.res.kind = "raise" THEN d
    ELSE [reqs |-> d.reqs,
          res |-> Return(IF driver = "RestHttpDriver" THEN RestPromptTemplate(d.res.text)
                         ELSE HttpPromptTemplate(d.res.text))]

\* get_driver_system_message of the two classes
get_driver_system_message(resp) ==
    IF driver = "RestHttpDriver" /\ custom_msg # None
    THEN [reqs |-> <<>>, res |-> Return(custom_msg)]
    ELSE PromptAround(get_function_description(resp))

(***************************************************************************)
(* process_llm_response.  Each part yields [res, reqs, has, base]: how the *)
(* call ended, the requests it sent, and the base-URL attribute after it.  *)
(***************************************************************************)
Unchanged(res) == [res |-> res, reqs |-> <<>>, has |-> has_base_url, base |-> base_url]

\* "return llm_response"
Plain(llm_response) == Unchanged(Return(LlmText(llm_response)))

\* spec_json.get("servers", [{}])[0].get("url") inside the try, on the outcome d
\* of get_function_description: [some, url].  Every exception (a failed fetch or
\* reduction, no JSON, no object, an empty list, a null) gives None.
ServersUrl(d) ==
    IF d.kind = "return" /\ d.text.k = "spec" /\ d.text.spec.json = "object"
       /\ d.text.spec.servers.t = "list" /\ d.text.spec.servers.items # <<>>
       /\ d.text.spec.servers.items[1].hasurl
    THEN [some |-> TRUE, url |-> d.text.spec.servers.items[1].url]
    ELSE [some |-> FALSE, url |-> <<>>]

\* f"{parsed.scheme}://{parsed.netloc}"
Origin(parsed) == parsed.scheme \o <<COLON, SLASH, SLASH>> \o parsed.netloc
SpecUrlOrigin == Origin(urlparse(urls0, <<>>))

\* "if not base: base = scheme://netloc", then base.rstrip("/")
BaseFrom(cand) == rstrip(IF cand.some /\ cand.url # <<>> THEN cand.url ELSE SpecUrlOrigin, SLASH)

ResolveFrom(d) == [reqs |-> d.reqs, base |-> BaseFrom(ServersUrl(d.res))]

\* a driver that resolves the base URL on every call
ResolveBaseUrl_EveryCall(r1) == ResolveFrom(get_function_description(r1))

\* the block under "if not hasattr(self, '_base_url')": [reqs, base]
ResolveBaseUrl(r1) ==
    IF has_base_url THEN [reqs |-> <<>>, base |-> base_url]
    ELSE ResolveFrom(get_function_description(r1))

\* call.get("method", "GET").upper(): [ok, m]; a value that is no string has no upper()
CallMethod(call) ==
    IF call.method.t = "absent" THEN [ok |-> TRUE, m |-> <<"GET">>]
    ELSE IF call.method.t = "str"
         THEN [ok |-> TRUE, m |-> [i \in 1..Len(call.method.s) |-> upper(call.method.s[i])]]
    ELSE [ok |-> FALSE, m |-> <<>>]

\* call.get(key, {}) or {}
OrEmpty(v) == IF Truthy(v) THEN v ELSE JObj(<<>>)

\* a driver that sends a failed tool request a second time
Executed_Retry(rb, r) ==
    [res |-> r.res,
     reqs |-> rb.reqs \o r.reqs \o (IF r.res.kind = "raise" THEN r.reqs ELSE <<>>),
     has |-> TRUE, base |-> rb.base]

\* the outcome of the call, r the outcome of its tool request
Executed(rb, r) == [res |-> r.res, reqs |-> rb.reqs \o r.reqs, has |-> TRUE, base |-> rb.base]

\* a driver that sends the method the call declares
Dispatch_DeclaredMethod(method, full_url, args, headers, r2) ==
    _do_request(IF method = <<>> THEN "POST" ELSE method[1], full_url,
                IF method = <<"GET">> THEN args ELSE Absent,
                IF method = <<"GET">> THEN Absent ELSE args,
                headers, r2)

\* 'if method == "GET"': a GET with the arguments as params, else a POST with
\* the arguments as JSON body
Dispatch(method, full_url, args, headers, r2) ==
    _do_request(IF method = <<"GET">> THEN "GET" ELSE "POST", full_url,
                IF method = <<"GET">> THEN args ELSE Absent,
                IF method = <<"GET">> THEN Absent ELSE args,
                headers, r2)

\* urljoin(self._base_url + "/", path.lstrip("/"))
FullUrl(base, path) == urljoin(base \o <<SLASH>>, lstrip(path, SLASH))

\* the end of process_llm_response, from urljoin on, with the base URL rb resolved
Execute(call, method, rb, r2) ==
    IF call.path.t # "str"      \* path.lstrip: only a string has it
    THEN [res |-> Raise("AttributeError"), reqs |-> rb.reqs, has |-> TRUE, base |-> rb.base]
    ELSE Executed(rb, Dispatch(method, FullUrl(rb.base, call.path.s),
                               OrEmpty(call.arguments), OrEmpty(call.headers), r2))

\* from the base-URL block to the end of process_llm_response
ResolveAndExecute(call, method, r1, r2) == Execute(call, method, ResolveBaseUrl(r1), r2)

\* RestHttpDriver.process_llm_response after json.loads gave j
RestCall(llm_response, j, r1, r2) ==
    IF ~j.ok THEN Plain(llm_response)                       \* JSONDecodeError
    ELSE IF ~j.dict \/ ~CallMethod(j.call).ok               \* call.get, .upper()
         THEN Unchanged(Raise("AttributeError"))
    ELSE IF ~Truthy(j.call.path) THEN Plain(llm_response)   \* if not path
    ELSE ResolveAndExecute(j.call, CallMethod(j.call).m, r1, r2)

\* RestHttpDriver.process_llm_response after _extract_json gave ex
RestExtracted(llm_response, ex, r1, r2) ==
    IF ~ex.found \/ ex.block = <<>> THEN Plain(llm_response)
    ELSE RestCall(llm_response, json_loads(ex.block), r1, r2)

\* RestHttpDriver.process_llm_response
RestProcess(llm_response, r1, r2) ==
    RestExtracted(llm_response, RestExtractJson(llm_response), r1, r2)

\* HTTPRESTDriver.process_llm_response after json.loads gave j
HttpCall(llm_response, j, r1, r2) ==
    IF ~j.ok THEN Plain(llm_response)                       \* JSONDecodeError
    ELSE IF ~j.dict \/ j.call.path.t = "absent" THEN Plain(llm_response)
    ELSE IF ~CallMethod(j.call).ok THEN Unchanged(Raise("AttributeError"))
    ELSE ResolveAndExecute(j.call, CallMethod(j.call).m, r1, r2)

\* HTTPRESTDriver.process_llm_response after _extract_json gave ex
HttpExtracted(llm_response, ex, r1, r2) ==
    IF ~ex.found \/ ex.block = <<>> THEN Plain(llm_response)
    ELSE HttpCall(llm_response, json_loads(ex.block), r1, r2)

\* HTTPRESTDriver.process_llm_response
HttpProcess(llm_response, r1, r2) ==
    HttpExtracted(llm_response, HttpExtractJson(llm_response), r1, r2)

process_llm_response(llm_response, r1, r2) ==
    IF driver = "RestHttpDriver" THEN RestProcess(llm_response, r1, r2)
    ELSE HttpProcess(llm_response, r1, r2)

(***************************************************************************)
(* The inputs of the model                                                 *)
(***************************************************************************)
LocalSpecUrl == <<"http", COLON, SLASH, SLASH, "localhost", COLON, "8000", SLASH, "openapi.json">>
NestedSpecUrl == <<"https", COLON, SLASH, SLASH, "specs", SLASH, "v1", SLASH, "openapi.json">>
SpecUrls == {LocalSpecUrl, NestedSpecUrl}

ApiV1 == <<"http", COLON, SLASH, SLASH, "api", SLASH, "v1">>
Code200 == <<"2", "0", "0">>
Code302 == <<"3", "0", "2">>
Code404 == <<"4", "0", "4">>
Code422 == <<"4", "2", "2">>
CodeDefault == <<"d", "e", "f", "a", "u", "l", "t">>

\* servers[0].url with trailing slashes, components, 2xx and 4xx responses
FullSpec ==
    SpecObject(Servers(<<Server(ApiV1 \o <<SLASH, SLASH>>), Server(<<"http", COLON, SLASH, SLASH, "b">>)>>),
               TRUE,
               Paths(<<PathItem(<<Operation(Responses(<<Code200, Code404, Code422>>)), NonDictOp>>),
                       PathItem(<<Operation(Responses(<<Code302, CodeDefault>>)),
                                  Operation(NoResponses)>>)>>))
\* no servers array
BareSpec == SpecObject(NoServers, FALSE, Paths(<<PathItem(<<Operation(Responses(<<Code200>>))>>)>>))
EmptyServersSpec == SpecObject(Servers(<<>>), TRUE, NoPaths)
EmptyUrlSpec == SpecObject(Servers(<<Server(<<>>)>>), FALSE, NoPaths)
\* a valid JSON object with a path item that is no object (an x- extension of
\* the paths mapping): path_item.values() fails on it
ExtensionSpec ==
    SpecObject(Servers(<<Server(<<"https", COLON, SLASH, SLASH, "svc">>)>>), TRUE,
               Paths(<<PathItem(<<Operation(Responses(<<Code200, Code404>>))>>), NullPathItem>>))
\* valid JSON that is no object
ArraySpec == NotAnObject("array")
\* no JSON at all
HtmlPage == NotAnObject("invalid")

Specs == {FullSpec, BareSpec, EmptyServersSpec, EmptyUrlSpec, ExtensionSpec, ArraySpec, HtmlPage}

BasicAuth == <<"Authorization", "Basic dXNlcjpwdw==", "X-Env", "dev">>

ToolsFib == <<"tools", SLASH, "fib">>
N4 == JObj(<<"n", "4">>)
Call(path, method, arguments, headers) ==
    [path |-> path, method |-> method, arguments |-> arguments, headers |-> headers]

Fib == Call(JStr(<<SLASH>> \o ToolsFib), Absent, N4, Absent)

Calls == {
    Fib,
    Call(JStr(ToolsFib), JStr(<<"get">>), Absent, JObj(<<"X-Trace", "1">>)),
    Call(JStr(<<SLASH>> \o ToolsFib), JStr(<<"post">>), N4, JObj(<<"Authorization", "Bearer t">>)),
    Call(JStr(<<SLASH, SLASH>> \o ToolsFib), JStr(<<"DELETE">>), Null, Null),
    Call(JStr(<<"http", COLON, SLASH, SLASH, "evil", SLASH, "x">>), Absent, Absent, Absent),
    Call(JStr(<<DOT, DOT, SLASH, "admin">>), Absent, Absent, Absent),
    Call(Absent, Absent, N4, Absent),
    Call(Absent, JNum("5"), N4, Absent),
    Call(Null, Absent, Absent, Absent),
    Call(JNum("5"), Absent, Absent, Absent),
    Call(JStr(ToolsFib), Null, Absent, Absent),
    Call(JStr(ToolsFib), Absent, Absent, JStr(<<"x">>)) }

Object(call) == <<Tok(LB), Members(call), Tok(RB)>>
Prose == <<Tok("Sure"), Tok(SP), Tok("thing")>>
Fenced(body) == <<Tok(FENCE), Tok("json"), Tok(NL)>> \o body \o <<Tok(NL), Tok(FENCE)>>

ModelOutputs ==
    { Object(c) : c \in Calls } \cup
    { <<>>,
      Prose,
      <<Tok("5")>>,
      <<Tok(LB), Tok(RB)>>,
      Fenced(Prose \o <<Tok(SP)>> \o Object(Fib) \o <<Tok(NL)>> \o Prose),
      Fenced(Prose),
      Prose \o <<Tok(SP)>> \o Object(Fib),
      Object(Fib) \o <<Tok(SP), Tok("or"), Tok(SP)>> \o Object(Fib) }

Outcomes == {"ok", "status", "transport"}
ToolBody == BodyText(<<Tok(LB), Tok("result"), Tok(RB)>>)

(***************************************************************************)
(* The driver as a state machine                                           *)
(***************************************************************************)
Init ==
    /\ driver \in {"RestHttpDriver", "HTTPRESTDriver"}
    /\ urls0 \in SpecUrls
    /\ reduced_spec \in BOOLEAN
    /\ default_headers = BasicAuth
    /\ \E c \in IF driver = "RestHttpDriver"
                THEN {<<None, None>>, <<SpecText(FullSpec), None>>, <<None, CustomMessage>>}
                ELSE {<<None, None>>} :
           custom_desc = c[1] /\ custom_msg = c[2]
    /\ has_base_url = FALSE
    /\ base_url = <<>>
    /\ upstream \in Specs
    /\ op = "none"
    /\ input = <<>>
    /\ result = NoResult
    /\ reqs = <<>>

\* Describe: get_function_description()
Describe ==
    \E o \in Outcomes :
        LET r == get_function_description([outcome |-> o, text |-> SpecText(upstream)])
        IN  /\ op' = "Describe"
            /\ input' = <<>>
            /\ result' = r.res
            /\ reqs' = r.reqs
            /\ UNCHANGED <<config, has_base_url, base_url, upstream>>

\* System Prompt: get_driver_system_message()
SystemPrompt ==
    \E o \in Outcomes :
        LET r == get_driver_system_message([outcome |-> o, text |-> SpecText(upstream)])
        IN  /\ op' = "SystemPrompt"
            /\ input' = <<>>
            /\ result' = r.res
            /\ reqs' = r.reqs
            /\ UNCHANGED <<config, has_base_url, base_url, upstream>>

\* the answers to a fetch of the specification: none is read once the base URL
\* is cached or a custom description is set, since no fetch is made then
SpecAnswers == IF has_base_url \/ custom_desc # None THEN {"ok"} ELSE Outcomes

\* Process Response: process_llm_response(llm_response)
ProcessResponse ==
    \E llm \in ModelOutputs, o1 \in SpecAnswers, o2 \in Outcomes :
        \E r \in {process_llm_response(llm, [outcome |-> o1, text |-> SpecText(upstream)],
                                      [outcome |-> o2, text |-> ToolBody])} :
            /\ op' = "ProcessResponse"
            /\ input' = llm
            /\ result' = r.res
            /\ reqs' = r.reqs
            /\ has_base_url' = r.has
            /\ base_url' = r.base
            /\ UNCHANGED <<config, upstream>>

\* the server behind the spec URL starts serving another specification
UpstreamChanges ==
    /\ upstream' \in Specs \ {upstream}
    /\ op' = "UpstreamChanges"
    /\ input' = <<>>
    /\ result' = NoResult
    /\ reqs' = <<>>
    /\ UNCHANGED <<config, has_base_url, base_url>>

Next == Describe \/ SystemPrompt \/ ProcessResponse \/ UpstreamChanges

Spec == Init /\ [][Next]_vars

(***************************************************************************)
(* What the claims speak of                                                *)
(***************************************************************************)
\* a fetch of the specification sends neither params nor a JSON body; a tool
\* request always sends one of the two
IsSpecFetch(q) == q.params = Absent /\ q.json = Absent
ToolRequests == SelectSeq(reqs, LAMBDA q : ~IsSpecFetch(q))
SpecFetches == SelectSeq(reqs, IsSpecFetch)

\* what the driver's own extractor and json.loads make of the last model output
ExtractedInput == IF driver = "RestHttpDriver" THEN RestExtractJson(input) ELSE HttpExtractJson(input)
DecodedInput == json_loads(ExtractedInput.block)
InputCall == DecodedInput.call

\* no structured call is obtained from the last model output: no JSON object
\* located, a decode failure, or a decoded value without a path key
NoStructuredCall ==
    \/ ~ExtractedInput.found \/ ExtractedInput.block = <<>>
    \/ ~DecodedInput.ok
    \/ ~DecodedInput.dict
    \/ InputCall.path.t = "absent"

\* the specification the driver describes: the override, else what upstream serves
DescribedSpec == IF custom_desc # None THEN custom_desc.spec ELSE upstream

\* servers[0].url of a specification document, empty if it has none
ServersUrlOf(spec) ==
    IF spec.json = "object" /\ spec.servers.t = "list" /\ spec.servers.items # <<>>
       /\ spec.servers.items[1].hasurl
    THEN spec.servers.items[1].url ELSE <<>>

\* scheme://host of the two spec URLs of the model, written out
OriginOfSpecUrl ==
    IF urls0 = LocalSpecUrl THEN <<"http", COLON, SLASH, SLASH, "localhost", COLON, "8000">>
    ELSE <<"https", COLON, SLASH, SLASH, "specs">>

\* C1: once a base URL is stored, no step (Describe, System Prompt, Process
\* Response with any output and any request outcome, a change of the upstream
\* specification) changes it or returns the driver to the unresolved state.
C1_BaseUrlLatch ==
    [][has_base_url => (has_base_url' /\ base_url' = base_url)]_vars

\* C1 witness: a Process Response that used the cached base URL (it fetched no
\* specification) although the specification now served would resolve differently.
C1_Witness ==
    /\ op = "ProcessResponse" /\ custom_desc = None /\ has_base_url
    /\ Len(ToolRequests) = 1 /\ SpecFetches = <<>>
    /\ ServersUrlOf(upstream) # <<>>
    /\ rstrip(ServersUrlOf(upstream), SLASH) # base_url

\* C2 (as claimed): when the fetch of the specification fails during base-URL
\* resolution, Process Response fails with the error of that fetch, sends no
\* tool request and leaves the base URL unresolved.
C2_FailedFetchPreventsResolution ==
    (op = "ProcessResponse" /\ SpecFetches # <<>> /\ SpecFetches[1].outcome # "ok")
    => /\ result = Raise(IF SpecFetches[1].outcome = "status" THEN "HTTPError"
                         ELSE "ConnectionError")
       /\ ToolRequests = <<>>
       /\ ~has_base_url

\* C3 (as claimed): every public operation performs at most one HTTP request.
C3_AtMostOneRequest == Len(reqs) <= 1

\* C3 (amended): Describe and System Prompt send at most one request; Process
\* Response sends at most one when the base URL is already cached and at most
\* two on the call that resolves it: one fetch of the specification, then one
\* tool request.
C3_AtMostOneRequestOnceResolved ==
    [][/\ op' \in {"Describe", "SystemPrompt"} => Len(reqs') <= 1
       /\ has_base_url => Len(reqs') <= 1
       /\ Len(reqs') <= 2
       /\ Len(reqs') = 2 => /\ op' = "ProcessResponse" /\ ~has_base_url /\ has_base_url'
                            /\ IsSpecFetch(reqs'[1]) /\ ~IsSpecFetch(reqs'[2])]_vars

\* C3 witness: the first Process Response of an unresolved driver fetched the
\* specification and then called the tool.
C3_Witness ==
    op = "ProcessResponse" /\ Len(reqs) = 2 /\ IsSpecFetch(reqs[1]) /\ ~IsSpecFetch(reqs[2])

\* C4 (as claimed): when no structured call is obtained from the model output,
\* Process Response returns the input unchanged, sends no request and leaves
\* the base-URL state as it was.
C4_NoCallIsPlainText ==
    [][(op' = "ProcessResponse" /\ NoStructuredCall')
       => /\ result' = Return(LlmText(input'))
          /\ reqs' = <<>>
          /\ UNCHANGED <<has_base_url, base_url>>]_vars

\* C5 (as claimed): Process Response ends by returning the original text, by
\* returning the tool's response body, or by failing with a transport or HTTP
\* status error, and in no other way.
C5_OnlyTransportOrStatusErrors ==
    op = "ProcessResponse"
    => \/ result = Return(LlmText(input))
       \/ result = Return(ToolBody)
       \/ result.kind = "raise" /\ result.exc \in {"HTTPError", "ConnectionError"}

\* C6: when the tool request gets a client- or server-error status, Process
\* Response fails with the HTTP status error, the tool request was sent exactly
\* once, and the base URL it was sent to stays cached.
C6_StatusErrorSurfacesOnce ==
    (op = "ProcessResponse" /\ \E i \in 1..Len(reqs) :
                                  ~IsSpecFetch(reqs[i]) /\ reqs[i].outcome = "status")
    => /\ result = Raise("HTTPError")
       /\ Len(ToolRequests) = 1
       /\ has_base_url
       /\ ToolRequests[1].url = urljoin(base_url \o <<SLASH>>, lstrip(InputCall.path.s, SLASH))

\* C6 witness: a Process Response whose tool request was answered with an error status.
C6_Witness ==
    op = "ProcessResponse" /\ ToolRequests # <<>> /\ ToolRequests[1].outcome = "status"

\* C7 (as claimed): the base URL stored by the first tool-invoking Process
\* Response, for every specification the driver obtains (fetched with success,
\* or overridden), is servers[0].url of that specification without its trailing
\* slashes if that url is non-empty, and else scheme://host of the spec URL.
C7_BaseUrlPrecedence ==
    [][(~has_base_url /\ has_base_url' /\ ToolRequests' # <<>>
        /\ (SpecFetches' # <<>> => SpecFetches'[1].outcome = "ok"))
       => base_url' = IF ServersUrlOf(DescribedSpec) # <<>>
                      THEN rstrip(ServersUrlOf(DescribedSpec), SLASH)
                      ELSE OriginOfSpecUrl]_vars

\* C8 (as claimed): the URL of the tool request is base + "/" + path with the
\* leading slashes of the path stripped, whatever the path holds.
C8_UrlIsBaseSlashPath ==
    (op = "ProcessResponse" /\ ToolRequests # <<>>)
    => ToolRequests[1].url = base_url \o <<SLASH>> \o lstrip(InputCall.path.s, SLASH)

\* C9: the tool request is a GET with the arguments as query parameters and no
\* body when the declared method is absent or GET in any case, and else a
\* request with the arguments as JSON body and no query parameters; no request
\* of the driver has a method other than GET and POST.
C9_GetQueryElseJsonBody ==
    /\ \A i \in 1..Len(reqs) : reqs[i].method \in {"GET", "POST"}
    /\ (op = "ProcessResponse" /\ ToolRequests # <<>>)
       => LET q == ToolRequests[1]
              arguments == IF InputCall.arguments.t \in {"absent", "null"}
                           THEN JObj(<<>>) ELSE InputCall.arguments
          IN  IF InputCall.method.t = "absent"
                 \/ InputCall.method.s \in {<<"get">>, <<"Get">>, <<"GET">>}
              THEN q.method = "GET" /\ q.params = arguments /\ q.json = Absent
              ELSE q.method = "POST" /\ q.json = arguments /\ q.params = Absent

\* C9 witness: a call that declared DELETE was dispatched, as a POST.
C9_Witness ==
    /\ op = "ProcessResponse" /\ ToolRequests # <<>>
    /\ InputCall.method.t = "str" /\ InputCall.method.s = <<"DELETE">>
    /\ ToolRequests[1].method = "POST"

\* C10 (as claimed): for every valid JSON text, spec reduction returns a text
\* that parses as JSON, has no components key, keeps only response codes that
\* start with 2 or 3, and keeps everything else.
C10_ReductionOfValidJson ==
    (op = "Describe" /\ reduced_spec /\ SpecFetches # <<>> /\ SpecFetches[1].outcome = "ok"
        /\ upstream.json # "invalid")
    => /\ result.kind = "return"
       /\ result.text.spec.json = upstream.json
       /\ ~result.text.spec.components
       /\ result.text.spec.servers = upstream.servers
       /\ result.text.spec.info = upstream.info
       /\ \A i \in 1..Len(result.text.spec.paths.items) :
            \A k \in 1..Len(result.text.spec.paths.items[i].ops) :
              \A c \in 1..Len(result.text.spec.paths.items[i].ops[k].resp.codes) :
                result.text.spec.paths.items[i].ops[k].resp.codes[c][1] \in {"2", "3"}

\* C11: Describe is a pure read.  With reduction enabled and the upstream
\* specification unchanged, two consecutive Describe calls that return a text
\* return the same text; and neither Describe nor System Prompt changes the
\* configuration, the default headers or the base-URL cache.
C11_DescribeIsPureRead ==
    [][/\ op' \in {"Describe", "SystemPrompt"}
            => UNCHANGED <<config, has_base_url, base_url>>
       /\ (op = "Describe" /\ op' = "Describe" /\ reduced_spec
              /\ result.kind = "return" /\ result'.kind = "return")
            => result'.text = result.text]_vars

\* C11 witness: on a driver whose base URL is unresolved, a Describe with
\* reduction enabled fetched a specification and returned it reduced (the text
\* returned is not the text served).
C11_Witness ==
    /\ op = "Describe" /\ reduced_spec /\ ~has_base_url
    /\ Len(SpecFetches) = 1 /\ result.kind = "return"
    /\ result.text # SpecText(upstream)

\* the candidate block of the last model output as the specification describes
\* it: fenced, the span from the first "{" to the last "}" of the text left
\* when the opening and the trailing fence line are removed, if there is one;
\* unfenced, the whole trimmed text
TrimmedInput == strip(input)
DescribedBlock ==
    IF StartsWithFence(TrimmedInput) THEN SearchBraces(StripFences(TrimmedInput))
    ELSE [found |-> TRUE, block |-> TrimmedInput]

\* the JSON object a block decodes to, if it decodes to one
ObjectOf(d) == [dict |-> d.ok /\ d.dict, call |-> IF d.ok /\ d.dict THEN d.call ELSE NoCall]

\* C12 (as claimed): the JSON object the driver obtains from the last model
\* output is the one the described block decodes to (none, when the block is
\* absent or decodes to no object): the span between the outermost braces of
\* the text inside the fences when the trimmed output starts with a fence, the
\* whole trimmed output when it does not; so an unfenced output that is not
\* itself a JSON object is no structured call and causes no request.
C12_CandidateBlock ==
    op = "ProcessResponse"
    => /\ ObjectOf(DecodedInput) = ObjectOf(json_loads(DescribedBlock.block))
       /\ (~StartsWithFence(TrimmedInput) /\ ~ObjectOf(json_loads(TrimmedInput)).dict)
            => reqs = <<>>

=============================================================================
